---- MODULE Spec2Model ----
(***************************************************************************)
(* Model of latam_genderize.LatamGenderize (src/latam_genderize/           *)
(* genderize.py): construction and model loading, name-column resolution,  *)
(* name normalisation and encoding, classifier invocation and the decision *)
(* rule, and the assembly of the result frame.                             *)
(*                                                                         *)
(* Strings are sequences of Unicode codepoints.  A cell of a DataFrame is  *)
(* a record [t, v]: t is the Python type of the value ("str", "int",       *)
(* "float", "list") and v a sequence of integers (the codepoints of a str, *)
(* the one number of an int or float, the elements of a list).  Scores and *)
(* probabilities are fixed-point numbers in units of 1/ScoreScale.         *)
(***************************************************************************)
EXTENDS Integers, Sequences, FiniteSets, TLC

\* ---------------------------------------------------------------- bounds
MaxRows == 2        \* rows of an input frame
MaxNameLen == 51    \* longest input name, in characters

\* ------------------------------------------------------ program constants
name_length == 50   \* genderize.py:159
ScoreScale == 1000  \* one unit of a score is 1/1000

\* ------------------------------------------------------- sequence helpers
Range(s) == {s[i] : i \in 1..Len(s)}

\* list.index(x): position of the first element equal to x
Index(s, x) == CHOOSE i \in 1..Len(s) : s[i] = x /\ \A j \in 1..(i - 1) : s[j] # x

RECURSIVE Flatten(_)
Flatten(ss) == IF ss = <<>> THEN <<>> ELSE Head(ss) \o Flatten(Tail(ss))

\* ------------------------------------------------------------ characters
\* str.lower() on one codepoint: A-Z and the Latin-1 capitals have a
\* lowercase 32 above; every other codepoint of the model is caseless or
\* already lowercase.
lower_char(c) ==
    IF c \in 65..90 THEN c + 32
    ELSE IF c \in 192..222 /\ c # 215 THEN c + 32
    ELSE c

\* str.lower()
lower(s) == [i \in 1..Len(s) |-> lower_char(s[i])]

\* unidecode.unidecode on one codepoint: ASCII is kept, accented Latin
\* letters lose the accent and keep their case, the CJK ideograph U+5317
\* becomes "Bei ", anything else has no approximation and is dropped.
unidecode_char(c) ==
    IF c < 128 THEN <<c>>
    ELSE CASE c = 193 -> <<65>>   \* A acute -> A
           [] c = 201 -> <<69>>   \* E acute -> E
           [] c = 209 -> <<78>>   \* N tilde -> N
           [] c = 225 -> <<97>>   \* a acute -> a
           [] c = 233 -> <<101>>  \* e acute -> e
           [] c = 237 -> <<105>>  \* i acute -> i
           [] c = 241 -> <<110>>  \* n tilde -> n
           [] c = 243 -> <<111>>  \* o acute -> o
           [] c = 21271 -> <<66, 101, 105, 32>>  \* U+5317 -> "Bei "
           [] OTHER -> <<>>

\* unidecode.unidecode(s)
unidecode(s) == Flatten([i \in 1..Len(s) |-> unidecode_char(s[i])])

\* the character class [a-z0-9 ]
InClass(c) == c \in 97..122 \/ c \in 48..57 \/ c = 32

\* re.sub(r"[^a-z0-9 ]+", "", s)
re_sub(s) == SelectSeq(s, InClass)

\* decimal digits of a natural number
RECURSIVE Digits(_)
Digits(n) == IF n < 10 THEN <<48 + n>> ELSE Digits(n \div 10) \o <<48 + (n % 10)>>

\* str(x) of a cell: a str is itself, an int its decimal digits
str(x) == IF x.t = "str" THEN x.v ELSE Digits(x.v[1])

\* the lambda of _preprocess: lowercase, then transliterate, then filter
clean_name(x) == re_sub(unidecode(lower(str(x))))

\* pad without the slice: the name is padded but never cut
pad_uncut(name) == name \o [i \in 1..name_length |-> 32]

\* (name + [' '] * name_length)[:name_length]
pad(name) == SubSeq(name \o [i \in 1..name_length |-> 32], 1, name_length)

\* encode_char without the floor at 0.0
encode_char_unfloored(c) == c - 96

\* max(0.0, ord(char) - 96.0)
encode_char(c) == IF c - 96 > 0 THEN c - 96 ELSE 0

\* [max(0.0, ord(char) - 96.0) for char in name]
encode(name) == [i \in 1..Len(name) |-> encode_char(name[i])]

\* ------------------------------------------------------------- decision
\* the threshold 0.5
Half == ScoreScale \div 2

\* gender_label with the threshold comparison not strict
gender_label_ge(prob) == IF prob >= Half THEN <<77>> ELSE <<70>>

\* 'M' if prob > 0.5 else 'F'                      ("M" is <<77>>, "F" <<70>>)
gender_label(prob) == IF prob > Half THEN <<77>> ELSE <<70>>

\* gender_prob without the complement for the scores at or below 0.5
gender_prob_raw(prob) == prob

\* prob if prob > 0.5 else 1.0 - prob
gender_prob(prob) == IF prob > Half THEN prob ELSE ScoreScale - prob

\* round(prob, 2): to the nearest hundredth, a tie to the even hundredth
round2(p) ==
    LET unit == ScoreScale \div 100
        q == p \div unit
        r == p % unit
    IN  IF 2 * r < unit THEN q * unit
        ELSE IF 2 * r > unit THEN (q + 1) * unit
        ELSE IF q % 2 = 0 THEN q * unit
        ELSE (q + 1) * unit

\* ----------------------------------------------------------- column names
c_name == <<110, 97, 109, 101>>
c_nombre == <<110, 111, 109, 98, 114, 101>>
c_first_name == <<102, 105, 114, 115, 116, 95, 110, 97, 109, 101>>
c_firstname == <<102, 105, 114, 115, 116, 110, 97, 109, 101>>
c_primer_nombre == <<112, 114, 105, 109, 101, 114, 95, 110, 111, 109, 98, 114, 101>>
c_clean_name_nlp == <<99, 108, 101, 97, 110, 95, 110, 97, 109, 101, 95, 110, 108, 112>>
c_transform_name_nlp ==
    <<116, 114, 97, 110, 115, 102, 111, 114, 109, 95, 110, 97, 109, 101, 95, 110, 108, 112>>
c_gender_predicted ==
    <<103, 101, 110, 100, 101, 114, 95, 112, 114, 101, 100, 105, 99, 116, 101, 100>>
c_gender_probability ==
    <<103, 101, 110, 100, 101, 114, 95, 112, 114, 111, 98, 97, 98, 105, 108, 105, 116, 121>>

\* name_patterns of _identify_column_name, in priority order
name_patterns == <<c_name, c_nombre, c_first_name, c_firstname, c_primer_nombre>>

\* An Optional value: <<>> is None (or "raised"), <<x>> is the value x.
None == <<>>
Some(x) == <<x>>

\* _identify_column_name scanning the columns before the patterns: the
\* leftmost column matching any pattern wins
_identify_column_name_leftmost(columns) ==
    LET normalized_columns == [i \in 1..Len(columns) |-> lower(columns[i])]
        hits == {j \in 1..Len(columns) : normalized_columns[j] \in Range(name_patterns)}
    IN  IF hits = {} THEN None
        ELSE Some(columns[CHOOSE j \in hits : \A k \in hits : j <= k])

\* _identify_column_name(columns): Some(column), or None when it raises
\* ValueError
_identify_column_name(columns) ==
    LET normalized_columns == [i \in 1..Len(columns) |-> lower(columns[i])]
        hits == {p \in 1..Len(name_patterns) :
                    name_patterns[p] \in Range(normalized_columns)}
    IN  IF hits = {} THEN None
        ELSE LET pattern == name_patterns[CHOOSE p \in hits : \A q \in hits : p <= q]
                 index == Index(normalized_columns, pattern)
             IN  Some(columns[index])

\* ------------------------------------------------------------ DataFrames
\* A frame is [columns |-> <<names>>, data |-> <<rows>>]; a row holds one
\* cell per column, in column order.
StrCell(s) == [t |-> "str", v |-> s]
IntCell(n) == [t |-> "int", v |-> <<n>>]
FloatCell(x) == [t |-> "float", v |-> <<x>>]
ListCell(l) == [t |-> "list", v |-> l]

NRows(df) == Len(df.data)

\* df[c]: the values of column c, in row order
getcol(df, c) == [i \in 1..NRows(df) |-> df.data[i][Index(df.columns, c)]]

\* df[c] = vals: overwrite column c when the frame has it, append it otherwise
setitem(df, c, vals) ==
    IF c \in Range(df.columns)
    THEN [columns |-> df.columns,
          data |-> [i \in 1..NRows(df) |->
                      [j \in 1..Len(df.columns) |->
                          IF df.columns[j] = c THEN vals[i] ELSE df.data[i][j]]]]
    ELSE [columns |-> Append(df.columns, c),
          data |-> [i \in 1..NRows(df) |-> Append(df.data[i], vals[i])]]

\* the positions of the columns not named in labels, in order
RECURSIVE KeptFrom(_, _, _)
KeptFrom(columns, labels, j) ==
    IF j > Len(columns) THEN <<>>
    ELSE (IF columns[j] \in labels THEN <<>> ELSE <<j>>) \o KeptFrom(columns, labels, j + 1)

\* df.drop(labels, axis=1)
drop(df, labels) ==
    LET kept == KeptFrom(df.columns, labels, 1)
    IN  [columns |-> [k \in 1..Len(kept) |-> df.columns[kept[k]]],
         data |-> [i \in 1..NRows(df) |-> [k \in 1..Len(kept) |-> df.data[i][kept[k]]]]]

\* the body of _preprocess after the copy (lines 150-175): the frame it
\* works on with clean_name_nlp and transform_name_nlp set
preprocess_frame(df_copy, name_column) ==
    LET names == getcol(df_copy, name_column)
        n == NRows(df_copy)
        clean_names == [i \in 1..n |-> clean_name(names[i])]
        transformed_names == clean_names
        padded_names == [i \in 1..n |-> pad(transformed_names[i])]
        encoded_names == [i \in 1..n |-> encode(padded_names[i])]
        with_clean == setitem(df_copy, c_clean_name_nlp,
                              [i \in 1..n |-> StrCell(clean_names[i])])
    IN  setitem(with_clean, c_transform_name_nlp,
                [i \in 1..n |-> ListCell(encoded_names[i])])

\* _preprocess without the copy: the columns are set on the caller's frame
_preprocess_inplace(df, name_column) ==
    [arg |-> preprocess_frame(df, name_column), ret |-> preprocess_frame(df, name_column)]

\* _preprocess(df, name_column).  arg is the caller's frame after the call
\* (the method works on df.copy(), so the caller's frame is as passed in),
\* ret the frame returned.
_preprocess(df, name_column) ==
    [arg |-> df, ret |-> preprocess_frame(df, name_column)]

\* _predict(df), given the scores self._model.predict returned for the
\* batch.  arg is the frame passed in after the call (the results go to
\* df.copy()), ret the frame returned.
_predict(df, predictions) ==
    LET gender_labels == [i \in 1..NRows(df) |-> gender_label(predictions[i])]
        gender_probs == [i \in 1..NRows(df) |-> gender_prob(predictions[i])]
        with_label == setitem(df, c_gender_predicted,
                              [i \in 1..NRows(df) |-> StrCell(gender_labels[i])])
        df_result == setitem(with_label, c_gender_probability,
                             [i \in 1..NRows(df) |-> FloatCell(round2(gender_probs[i]))])
    IN  [arg |-> df, ret |-> df_result]

\* input_data assembling the batch in reverse row order
input_data_reversed(df) ==
    [i \in 1..NRows(df) |-> getcol(df, c_transform_name_nlp)[NRows(df) + 1 - i].v]

\* the batch handed to self._model.predict:
\* np.asarray(df['transform_name_nlp'].values.tolist())
input_data(df) == [i \in 1..NRows(df) |-> getcol(df, c_transform_name_nlp)[i].v]

\* the path of the model shipped with the package (line 46)
default_model_path == "models/boyorgirl_CO_ES.h5"

\* the constructor ignoring a custom path
init_model_path_default(path) == default_model_path

\* __init__, lines 43-46: the path the model is loaded from
init_model_path(path) == IF path = None THEN default_model_path ELSE path[1]

\* _load_model without the os.path.exists check, swallowing the loader's
\* exception and returning None
_load_model_lenient(path_exists, loader_ok) ==
    IF path_exists /\ loader_ok
    THEN [raised |-> "none", model |-> "loaded", invoked |-> TRUE]
    ELSE [raised |-> "none", model |-> "None", invoked |-> TRUE]

\* _load_model(model_path), given whether the path exists and whether
\* keras' load_model succeeds on it: what it raises, what it returns, and
\* whether load_model was invoked.
_load_model(path_exists, loader_ok) ==
    IF ~path_exists
    THEN [raised |-> "FileNotFoundError", model |-> "None", invoked |-> FALSE]
    ELSE IF loader_ok
    THEN [raised |-> "none", model |-> "loaded", invoked |-> TRUE]
    ELSE [raised |-> "Exception", model |-> "None", invoked |-> TRUE]

\* the resolution falling back to the first column instead of raising
resolve_column_fallback(columns, name_column) ==
    LET resolved == IF name_column = None THEN _identify_column_name(columns)
                    ELSE name_column
    IN  IF resolved # None /\ resolved[1] \in Range(columns) THEN resolved
        ELSE IF columns = <<>> THEN None
        ELSE Some(columns[1])

\* lines 69-73 of genderize: the column named by the selector, or None when
\* ValueError is raised (auto-detection fails, or the column is not in df)
resolve_column(columns, name_column) ==
    LET resolved == IF name_column = None THEN _identify_column_name(columns)
                    ELSE name_column
    IN  IF resolved = None THEN None
        ELSE IF resolved[1] \notin Range(columns) THEN None
        ELSE resolved

\* ---------------------------------------------------------------- inputs
c_Name == <<78, 97, 109, 101>>
c_NOMBRE == <<78, 79, 77, 66, 82, 69>>
c_id == <<105, 100>>
c_age == <<97, 103, 101>>
c_city == <<99, 105, 116, 121>>
c_last_name == <<108, 97, 115, 116, 95, 110, 97, 109, 101>>
c_missing == <<109, 105, 115, 115, 105, 110, 103>>

\* the column lists of the input frames
ColumnLists ==
    { <<c_id, c_name, c_age>>,
      <<c_nombre, c_Name>>,
      <<c_Name, c_name>>,
      <<c_id, c_NOMBRE, c_first_name>>,
      <<c_primer_nombre, c_firstname, c_last_name>>,
      <<c_id, c_age, c_city>>,
      <<c_name, c_clean_name_nlp>>,
      <<c_nombre, c_gender_predicted, c_transform_name_nlp>>,
      <<c_gender_probability, c_first_name>> }

\* a name of n characters: "Zoe Zoe Zoe ..."
LongName(n) == [i \in 1..n |-> <<90, 111, 101, 32>>[((i - 1) % 4) + 1]]

\* the names of the input frames: "", "Juan-Pérez", "María José",
\* "Carlos123", U+5317, "ANA", and names around name_length characters
NamePool ==
    << <<>>,
       <<74, 117, 97, 110, 45, 80, 233, 114, 101, 122>>,
       <<77, 97, 114, 237, 97, 32, 74, 111, 115, 233>>,
       <<67, 97, 114, 108, 111, 115, 49, 50, 51>>,
       <<21271>>,
       <<65, 78, 65>> >>
    \o [k \in 1..(MaxNameLen - name_length + 2) |-> LongName(name_length - 2 + k)]

\* the n names of the pool from position start on, cyclically
Window(start, n) ==
    [i \in 1..n |-> NamePool[((start + i - 2) % Len(NamePool)) + 1]]

\* the cell of row i under column c, the row's name being name
InputCell(c, i, name) ==
    IF lower(c) \in Range(name_patterns) THEN StrCell(name)
    ELSE IF c \in {c_id, c_age} THEN IntCell(24 + i)
    ELSE StrCell(<<111, 108, 100>>)

\* a frame of n rows under the columns cols, its names the pool's from start
Frame(cols, start, n) ==
    [columns |-> cols,
     data |-> [i \in 1..n |->
                 [j \in 1..Len(cols) |-> InputCell(cols[j], i, Window(start, n)[i])]]]

\* the input frames: every column list over a few names, and one column
\* list over every run of names
Frames ==
    { Frame(cols, 2, n) : cols \in ColumnLists, n \in 0..MaxRows }
    \cup { Frame(<<c_id, c_name>>, start, n) :
           start \in 1..Len(NamePool), n \in 1..MaxRows }

\* the name_column arguments: None or an explicit selector
Selectors == {None, Some(c_name), Some(c_age), Some(c_missing), Some(c_clean_name_nlp)}

\* the scores a classifier may return, in units of 1/ScoreScale
Scores == {300, 499, 500, 501, 700, 1000}

\* ----------------------------------------------------------------- state
VARIABLES
    instance,       \* a constructed LatamGenderize is held by the caller
    model,          \* self._model: "None" or "loaded"
    model_path,     \* self._model_path
    load_calls,     \* invocations of keras' load_model by the constructor
    ctor_error,     \* what the last constructor call raised, or "none"
    path_arg,       \* the model_path argument of the last constructor call
    loaded_path,    \* the path keras' load_model was invoked with (None: not invoked)
    recalled,       \* this genderize call follows an earlier one on the instance
    pc,             \* position of the genderize call
    df,             \* the caller's input frame
    df_before,      \* the input frame as it was when genderize was called
    selector,       \* the name_column argument
    name_column,    \* the resolved name column (None when unresolved)
    df_processed,   \* genderize's df_processed
    df_result,      \* genderize's df_result
    result,         \* the frame returned (None when nothing was returned)
    error,          \* what genderize raised, or "none"
    n_encoded,      \* names encoded by this call
    batches,        \* the batches this call passed to self._model.predict
    predictions     \* the scores self._model.predict returned to this call

vars == <<instance, model, model_path, load_calls, ctor_error, path_arg, loaded_path,
          recalled, pc, df, df_before, selector, name_column, df_processed, df_result,
          result, error, n_encoded, batches, predictions>>

ctor_vars == <<instance, model, model_path, load_calls, ctor_error, path_arg, loaded_path>>

EmptyFrame == [columns |-> <<>>, data |-> <<>>]

Init ==
    /\ instance = FALSE
    /\ model = "None"
    /\ model_path = "None"
    /\ load_calls = 0
    /\ ctor_error = "none"
    /\ path_arg = None
    /\ loaded_path = None
    /\ recalled = FALSE
    /\ pc = "idle"
    /\ df = EmptyFrame
    /\ df_before = EmptyFrame
    /\ selector = None
    /\ name_column = None
    /\ df_processed = None
    /\ df_result = None
    /\ result = None
    /\ error = "none"
    /\ n_encoded = 0
    /\ batches = <<>>
    /\ predictions = <<>>

\* LatamGenderize(model_path): __init__, lines 43-49
Construct(path, path_exists, loader_ok) ==
    /\ ~instance
    /\ path_arg' = path
    /\ LET the_path == init_model_path(path)
           loaded == _load_model(path_exists, loader_ok)
       IN  /\ model_path' = the_path
           /\ loaded_path' = IF loaded.invoked THEN Some(the_path) ELSE None
           /\ model' = loaded.model
           /\ load_calls' = IF loaded.invoked THEN 1 ELSE 0
           /\ ctor_error' = loaded.raised
           /\ instance' = (loaded.raised = "none")
    /\ UNCHANGED <<recalled, pc, df, df_before, selector, name_column, df_processed,
                   df_result, result, error, n_encoded, batches, predictions>>

\* genderize(df, name_column), lines 69-73: resolve the name column
Resolve(d, sel) ==
    /\ instance
    /\ pc \in {"idle", "done"}
    /\ df' = d
    /\ df_before' = d
    /\ selector' = sel
    /\ name_column' = resolve_column(d.columns, sel)
    /\ IF name_column' = None
       THEN pc' = "done" /\ error' = "ValueError"
       ELSE pc' = "preprocess" /\ error' = "none"
    /\ df_processed' = None
    /\ df_result' = None
    /\ result' = None
    /\ n_encoded' = 0
    /\ batches' = <<>>
    /\ predictions' = <<>>
    /\ recalled' = (pc = "done")
    /\ UNCHANGED ctor_vars

\* genderize, line 76: df_processed = self._preprocess(df, name_column)
Preprocess ==
    /\ pc = "preprocess"
    /\ LET r == _preprocess(df, name_column[1])
       IN  /\ df' = r.arg
           /\ df_processed' = Some(r.ret)
    /\ n_encoded' = n_encoded + NRows(df)
    /\ pc' = "predict"
    /\ UNCHANGED <<ctor_vars, recalled, df_before, selector, name_column, df_result,
                   result, error, batches, predictions>>

\* genderize, line 79: df_result = self._predict(df_processed), the
\* classifier returning one score per row of the batch
Predict(scores) ==
    /\ pc = "predict"
    /\ Len(scores) = NRows(df_processed[1])
    /\ LET r == _predict(df_processed[1], scores)
       IN  /\ df_processed' = Some(r.arg)
           /\ df_result' = Some(r.ret)
    /\ batches' = Append(batches, input_data(df_processed[1]))
    /\ predictions' = scores
    /\ pc' = "cleanup"
    /\ UNCHANGED <<ctor_vars, recalled, df, df_before, selector, name_column, result,
                   error, n_encoded>>

\* genderize, line 79, the classifier raising: the exception leaves genderize
PredictRaises ==
    /\ pc = "predict"
    /\ batches' = Append(batches, input_data(df_processed[1]))
    /\ error' = "ClassifierError"
    /\ pc' = "done"
    /\ UNCHANGED <<ctor_vars, recalled, df, df_before, selector, name_column,
                   df_processed, df_result, result, n_encoded, predictions>>

\* genderize, lines 82-84: drop the temporary columns in place and return
Return ==
    /\ pc = "cleanup"
    /\ df_result' = Some(drop(df_result[1], {c_clean_name_nlp, c_transform_name_nlp}))
    /\ result' = df_result'
    /\ pc' = "done"
    /\ UNCHANGED <<ctor_vars, recalled, df, df_before, selector, name_column,
                   df_processed, error, n_encoded, batches, predictions>>

Next ==
    \/ \E path \in {None, Some("custom.h5")}, path_exists \in BOOLEAN, loader_ok \in BOOLEAN :
          Construct(path, path_exists, loader_ok)
    \/ \E d \in Frames, sel \in Selectors : Resolve(d, sel)
    \/ Preprocess
    \/ \E n \in 0..MaxRows : \E scores \in [1..n -> Scores] : Predict(scores)
    \/ PredictRaises
    \/ Return

Spec == Init /\ [][Next]_vars

\* ---------------------------------------------------------------- claims
\* a genderize call has returned a frame
Returned == pc = "done" /\ error = "none" /\ result # None

\* the label and the confidence written for row i of the returned frame
LabelOf(i) == getcol(result[1], c_gender_predicted)[i].v
ConfidenceOf(i) == getcol(result[1], c_gender_probability)[i].v[1]

Abs(x) == IF x < 0 THEN 0 - x ELSE x

\* C1 as stated: the confidence written to gender_probability lies in
\* [0.5, 1.0] and equals 0.5 only when the score is exactly 0.5.
C1_AsStated ==
    Returned =>
        \A i \in 1..NRows(result[1]) :
            /\ ConfidenceOf(i) \in Half..ScoreScale
            /\ ConfidenceOf(i) = Half => predictions[i] = Half

\* C1 amended: the confidence written to gender_probability lies in
\* [0.5, 1.0]; it is 0.5 when the score is exactly 0.5, and a confidence of
\* 0.5 means the score is within 0.005 of 0.5 (scores such as 0.501 and
\* 0.499 round to it too).
C1_ConfidenceRange ==
    Returned =>
        \A i \in 1..NRows(result[1]) :
            /\ ConfidenceOf(i) \in Half..ScoreScale
            /\ predictions[i] = Half => ConfidenceOf(i) = Half
            /\ ConfidenceOf(i) = Half => Abs(predictions[i] - Half) <= ScoreScale \div 200

\* a returned frame holds confidence 0.5 for a score other than 0.5, and a
\* confidence of 1.0
C1_Witness ==
    /\ Returned
    /\ \E i \in 1..NRows(result[1]) : ConfidenceOf(i) = Half /\ predictions[i] # Half
    /\ \E i \in 1..NRows(result[1]) : ConfidenceOf(i) = ScoreScale

\* C3: the label is "M" exactly when the score is above 0.5 and "F" exactly
\* when it is at most 0.5; a score of exactly 0.5 gives "F" with confidence
\* 0.5; two records with the same score get the same label and confidence.
C3_DecisionRule ==
    Returned =>
        \A i \in 1..NRows(result[1]) :
            /\ LabelOf(i) = <<77>> <=> predictions[i] > Half
            /\ LabelOf(i) = <<70>> <=> predictions[i] <= Half
            /\ predictions[i] = Half => LabelOf(i) = <<70>> /\ ConfidenceOf(i) = Half
            /\ \A j \in 1..NRows(result[1]) :
                  predictions[i] = predictions[j] =>
                      LabelOf(i) = LabelOf(j) /\ ConfidenceOf(i) = ConfidenceOf(j)

\* a returned frame holds a record scored exactly 0.5 and one scored above
C3_Witness ==
    /\ Returned
    /\ \E i, j \in 1..NRows(result[1]) :
          predictions[i] = Half /\ predictions[j] > Half /\ LabelOf(j) = <<77>>

\* the raw name of row i of the call's input, as the lambda of _preprocess
\* receives it after str()
RawName(i) == str(getcol(df_before, name_column[1])[i])

\* the canonical name and the encoded vector _preprocess stored for row i
CanonicalOf(i) == getcol(df_processed[1], c_clean_name_nlp)[i].v
VectorOf(i) == getcol(df_processed[1], c_transform_name_nlp)[i].v

\* _preprocess has run and its frame is at hand
Preprocessed == pc \in {"predict", "cleanup"} /\ df_processed # None

\* C4: every encoded vector has exactly 50 elements: the canonical name's
\* characters, cut after the 50th, followed by the code of a space (0) in
\* every slot the name does not reach; the empty name gives 50 zeros.
C4_VectorLength ==
    Preprocessed =>
        \A i \in 1..NRows(df_processed[1]) :
            /\ Len(VectorOf(i)) = name_length
            /\ \A k \in 1..Len(VectorOf(i)) :
                  IF k <= Len(CanonicalOf(i))
                  THEN VectorOf(i)[k] = (IF CanonicalOf(i)[k] \in 97..122
                                         THEN CanonicalOf(i)[k] - 96 ELSE 0)
                  ELSE VectorOf(i)[k] = 0
            /\ CanonicalOf(i) = <<>> => VectorOf(i) = [k \in 1..name_length |-> 0]

\* a preprocessed frame holds a canonical name longer than 50 characters and
\* an empty one
C4_Witness ==
    /\ Preprocessed
    /\ \E i, j \in 1..NRows(df_processed[1]) :
          /\ Len(CanonicalOf(i)) > name_length
          /\ CanonicalOf(j) = <<>>
          /\ Len(VectorOf(i)) = name_length
          /\ VectorOf(i)[name_length] # 0

\* C5: every element of an encoded vector lies in 0..26: a letter a..z of
\* the canonical name encodes to its 1-based alphabet position, a space, a
\* digit and a padding slot to 0.
C5_VectorRange ==
    Preprocessed =>
        \A i \in 1..NRows(df_processed[1]) :
            \A k \in 1..Len(VectorOf(i)) :
                /\ VectorOf(i)[k] \in 0..26
                /\ k <= Len(CanonicalOf(i)) =>
                      LET c == CanonicalOf(i)[k]
                      IN  /\ c \in 97..122 \/ c \in 48..57 \/ c = 32
                          /\ c \in 97..122 => VectorOf(i)[k] = c - 96
                          /\ c \in 48..57 \/ c = 32 => VectorOf(i)[k] = 0
                /\ k > Len(CanonicalOf(i)) => VectorOf(i)[k] = 0

\* a preprocessed frame holds a canonical name with a 'z', a digit and a
\* space in it ("juanperez" and "carlos123" or "maria jose")
C5_Witness ==
    /\ Preprocessed
    /\ \E i \in 1..NRows(df_processed[1]) : \E k \in 1..Len(CanonicalOf(i)) :
          CanonicalOf(i)[k] = 122 /\ VectorOf(i)[k] = 26
    /\ \E i \in 1..NRows(df_processed[1]) : \E k \in 1..Len(CanonicalOf(i)) :
          (CanonicalOf(i)[k] \in 48..57 \/ CanonicalOf(i)[k] = 32) /\ VectorOf(i)[k] = 0

\* the pipeline in the order the specification gives: transliterate, then
\* lowercase, then filter
SpecCanonical(x) == re_sub(lower(unidecode(x)))

\* C10 as stated: the canonical name _preprocess computes equals
\* transliterate-then-lowercase-then-filter of the input name.
C10_AsStated ==
    Preprocessed =>
        \A i \in 1..NRows(df_processed[1]) : CanonicalOf(i) = SpecCanonical(RawName(i))

\* the columns of the call's input matching pattern p, case-insensitively
Matching(p) ==
    {j \in 1..Len(df_before.columns) : lower(df_before.columns[j]) = name_patterns[p]}

\* the patterns some column of the call's input matches
MatchedPatterns == {p \in 1..Len(name_patterns) : Matching(p) # {}}

Least(S) == CHOOSE x \in S : \A y \in S : x <= y

\* a genderize call has been made with no selector
AutoDetected == pc # "idle" /\ selector = None

\* C6: with no selector, the column resolved is, in its original spelling,
\* the leftmost column matching the earliest pattern of the priority list
\* that any column matches; the call fails with ValueError exactly when no
\* column matches any pattern.
C6_AutoDetect ==
    AutoDetected =>
        /\ MatchedPatterns = {} <=> (name_column = None /\ error = "ValueError")
        /\ MatchedPatterns # {} =>
              name_column = Some(df_before.columns[Least(Matching(Least(MatchedPatterns)))])

\* auto-detection picked a column that is not the leftmost matching column
\* ("Name" in <<"nombre", "Name">>)
C6_Witness ==
    /\ AutoDetected
    /\ name_column # None
    /\ \E j \in 1..Len(df_before.columns) :
          /\ lower(df_before.columns[j]) \in Range(name_patterns)
          /\ df_before.columns[j] # name_column[1]
          /\ j < Index(df_before.columns, name_column[1])
    /\ name_column[1] # lower(name_column[1])

\* the name column of the call cannot be resolved
Unresolvable ==
    \/ selector = None /\ MatchedPatterns = {}
    \/ selector # None /\ selector[1] \notin Range(df_before.columns)

\* C7: a call whose name column cannot be resolved has failed with
\* ValueError, with no name encoded, no classifier invocation and no frame
\* returned.
C7_ColumnErrorFirst ==
    (pc # "idle" /\ Unresolvable) =>
        /\ pc = "done"
        /\ error = "ValueError"
        /\ n_encoded = 0
        /\ batches = <<>>
        /\ df_processed = None
        /\ result = None

\* a call with an explicit selector naming no column of a non-empty frame
\* has failed
C7_Witness ==
    /\ pc = "done"
    /\ Unresolvable
    /\ selector # None
    /\ NRows(df_before) > 0
    /\ error = "ValueError"

C9_InputUntouched ==
    pc # "idle" => df = df_before

\* a call on a non-empty frame returned a frame with the two new columns,
\* the input holding neither
C9_Witness ==
    /\ Returned
    /\ NRows(df) > 0
    /\ c_gender_predicted \in Range(result[1].columns)
    /\ c_gender_predicted \notin Range(df.columns)
    /\ c_clean_name_nlp \notin Range(df.columns)

\* C2 as stated: a returned frame has the input's rows in order, every
\* input column with its values, exactly gender_predicted and
\* gender_probability appended, and no scratch column of the pipeline,
\* whatever the input's column names.
C2_AsStated ==
    Returned =>
        LET r == result[1]
            n == Len(df_before.columns)
        IN  /\ NRows(r) = NRows(df_before)
            /\ Len(r.columns) = n + 2
            /\ SubSeq(r.columns, 1, n) = df_before.columns
            /\ SubSeq(r.columns, n + 1, n + 2) = <<c_gender_predicted, c_gender_probability>>
            /\ \A i \in 1..NRows(r) : SubSeq(r.data[i], 1, n) = df_before.data[i]
            /\ \A c \in {c_clean_name_nlp, c_transform_name_nlp} :
                  c \notin Range(df_before.columns) => c \notin Range(r.columns)

\* the encoded vector of row i of the call's input: the canonical name's
\* letters as alphabet positions, 0 in every other slot, 50 slots
EncodedInput(i) ==
    LET canon == clean_name(getcol(df_before, name_column[1])[i])
    IN  [k \in 1..name_length |->
            IF k <= Len(canon) /\ canon[k] \in 97..122 THEN canon[k] - 96 ELSE 0]

\* the confidence of a score before rounding
Folded(s) == IF s > Half THEN s ELSE ScoreScale - s

\* C11: a call that resolved its name column invokes the classifier's
\* predict exactly once (never before _preprocess, never a second time),
\* with a batch of one encoded vector per input record in input row order;
\* the i-th score returned gives the label and the confidence of the i-th
\* record.
C11_SingleBatch ==
    /\ pc \in {"preprocess", "predict"} => batches = <<>>
    /\ (pc \in {"cleanup", "done"} /\ name_column # None) =>
          /\ Len(batches) = 1
          /\ Len(batches[1]) = NRows(df_before)
          /\ \A i \in 1..NRows(df_before) : batches[1][i] = EncodedInput(i)
    /\ Returned =>
          /\ Len(predictions) = NRows(df_before)
          /\ NRows(result[1]) = NRows(df_before)
          /\ \A i \in 1..NRows(df_before) :
                /\ LabelOf(i) = (IF predictions[i] > Half THEN <<77>> ELSE <<70>>)
                /\ Abs(ConfidenceOf(i) - Folded(predictions[i])) <= ScoreScale \div 200

\* a call returned a frame of several records with different vectors and
\* different labels, after one invocation of predict
C11_Witness ==
    /\ Returned
    /\ Len(batches) = 1
    /\ \E i, j \in 1..NRows(df_before) :
          /\ i < j
          /\ batches[1][i] # batches[1][j]
          /\ LabelOf(i) # LabelOf(j)
          /\ ConfidenceOf(i) # ConfidenceOf(j)

\* C12: an instance's model was loaded by exactly one invocation of the
\* loader, from the configured path (the custom path when one was given),
\* and this stays so through every genderize call, successful or failed;
\* a call that follows another starts with nothing of the earlier call: no
\* frame, no scores, no batch, no encoded name, and what it encodes and
\* passes to the classifier are its own records.
C12_LoadedOnce ==
    instance =>
        /\ load_calls = 1
        /\ model = "loaded"
        /\ model_path = (IF path_arg = None THEN default_model_path ELSE path_arg[1])
        /\ loaded_path = Some(model_path)
        /\ pc = "preprocess" =>
              /\ df_processed = None /\ df_result = None /\ result = None
              /\ predictions = <<>> /\ batches = <<>> /\ n_encoded = 0
        /\ pc \in {"predict", "cleanup"} \/ (pc = "done" /\ name_column # None) =>
              /\ n_encoded = NRows(df_before)
              /\ Len(batches) <= 1
              /\ \A b \in 1..Len(batches) : Len(batches[b]) = NRows(df_before)
        /\ Returned => NRows(result[1]) = NRows(df_before)

\* an instance built with a custom path has returned from a genderize call
\* that followed an earlier call; the loader ran once
C12_Witness ==
    /\ instance
    /\ path_arg # None
    /\ recalled
    /\ Returned
    /\ NRows(df_before) > 0
    /\ load_calls = 1

====
